---- MODULE Spec2Model ----
(***************************************************************************)
(* Model of the Redux store slices and of the AddPostForm component of the *)
(* redux-essentials example app.                                           *)
(*                                                                         *)
(*   Spec               state.posts, the normalized posts slice            *)
(*                      (features/posts/postsSlice.js, lines 71-172),      *)
(*                      under every sequence of dispatched actions         *)
(*   SpecPostsVersions  state.posts in each version of the posts slice:    *)
(*                      the normalized one, the array inside an object     *)
(*                      (features/posts/postsSlice.js, lines 174-246) and  *)
(*                      the bare array (features/post/postsSlice.js)       *)
(*   SpecNotifications  state.notifications, array and entity-adapter      *)
(*                      versions (features/notifications/                  *)
(*                      notificationsSlice.js), with the fetchNotifications*)
(*                      thunks in flight                                   *)
(*   SpecForm           the local state of AddPostForm and the addNewPost  *)
(*                      request it awaits                                  *)
(*                                                                         *)
(* The parts share no state: a specification leaves the variables of the   *)
(* other parts at their initial values.                                    *)
(***************************************************************************)
EXTENDS Integers, Sequences, FiniteSets, TLC

VARIABLES
    posts,              \* state.posts: [ids, entities, status, error]
    postsVersion,       \* which version of the posts slice is built
    postsArray,         \* state.posts of the array version: [posts, status,
                        \* error]
    postsList,          \* state.posts of the bare-array version
    sliceVersion,       \* which version of notificationsSlice.js is built
    notifications,      \* state.notifications of the array version
    notificationsState, \* state.notifications of the adapter version
    serverDb,           \* the notifications the fake API can serve
    requests,           \* fetchNotifications thunks awaiting client.get
    title, content, userId, addRequestStatus,   \* useState of AddPostForm
    addRequests         \* addNewPost thunks the form awaits

vars == <<posts, postsVersion, postsArray, postsList, sliceVersion, notifications, notificationsState, serverDb,
          requests, title, content, userId, addRequestStatus, addRequests>>

postsVersionVars == <<postsVersion, postsArray, postsList>>
postsVars == <<posts, postsVersionVars>>
notificationsVars ==
    <<sliceVersion, notifications, notificationsState, serverDb, requests>>
formVars == <<title, content, userId, addRequestStatus, addRequests>>

(***************************************************************************)
(* Bounds of the model.                                                    *)
(***************************************************************************)
MaxPostId == 2          \* post ids are 1..MaxPostId
MaxDate == 2            \* timestamps are 1..MaxDate
MaxPayload == 2         \* longest payload of fetchPosts.fulfilled
MaxReactionCount == 1   \* cap of the reaction counter
MaxNanoId == 2          \* ids nanoid() can return
MaxNotificationId == 2  \* notification ids are 1..MaxNotificationId
MaxInFlight == 2        \* fetchNotifications thunks in flight at once
MaxAddRequests == 2     \* addNewPost thunks of the form in flight at once

PostIds == 1..MaxPostId
\* The ids of the posts a slice starts with are '1' and '2'; the ids
\* nanoid() returns are modelled by the integers after them.
NanoIds == 3..(2 + MaxNanoId)
NotificationIds == 1..MaxNotificationId
Dates == 1..MaxDate
Titles == {"t1", "t2"}
Contents == {"c1", "c2"}
Users == {"u1", "u2"}
ReactionNames == {"thumbsUp"}
ErrorMessages == {"Request failed"}
Null == "null"

(***************************************************************************)
(* JavaScript and Redux Toolkit helpers.                                   *)
(***************************************************************************)

\* String.prototype.localeCompare on timestamps. Dates are ISO-8601 strings
\* of one fixed format, on which the collation order is the chronological
\* one; a date is modelled by its rank in that order.
LocaleCompare(x, y) == IF x < y THEN -1 ELSE IF x > y THEN 1 ELSE 0

\* Mutant: the comparer with its operands swapped (oldest first).
PostsSortComparerAscending(a, b) == LocaleCompare(a.date, b.date)

\* sortComparer: (a, b) => b.date.localeCompare(a.date)
PostsSortComparer(a, b) == LocaleCompare(b.date, a.date)

\* Mutant: the comparer with its operands swapped (oldest first).
NotificationsArrayComparerAscending(a, b) == LocaleCompare(a.date, b.date)

\* state.sort((a, b) => b.date.localeCompare(a.date))
NotificationsArraySortComparer(a, b) == LocaleCompare(b.date, a.date)

\* createEntityAdapter({ sortComparer: (a, b) => b.date.localeCompare(a.date) })
NotificationsSortComparer(a, b) == LocaleCompare(b.date, a.date)

\* The comparer an adapter was created with, or a sort was called with.
SortComparer(owner, a, b) ==
    CASE owner = "postsAdapter" -> PostsSortComparer(a, b)
      [] owner = "notificationsAdapter" -> NotificationsSortComparer(a, b)
      [] owner = "notificationsArray" -> NotificationsArraySortComparer(a, b)

\* Array.prototype.sort(cmp): a stable sort. The element at index i moves
\* behind every element that compares smaller and every equal one before it.
StableSort(s, owner) ==
    LET n == Len(s)
        Rank(i) == Cardinality({j \in 1..n :
                        \/ SortComparer(owner, s[j], s[i]) < 0
                        \/ (SortComparer(owner, s[j], s[i]) = 0 /\ j < i)}) + 1
    IN  [k \in 1..n |-> s[CHOOSE i \in 1..n : Rank(i) = k]]

\* The keys of a lookup table in the order Object.values enumerates them:
\* ids are integer-like keys, which JavaScript enumerates ascending.
RECURSIVE KeysAscending(_)
KeysAscending(S) ==
    IF S = {} THEN << >>
    ELSE LET m == CHOOSE x \in S : \A y \in S : x <= y
         IN  <<m>> \o KeysAscending(S \ {m})

ObjectValues(entities) ==
    LET ks == KeysAscending(DOMAIN entities)
    IN  [i \in 1..Len(ks) |-> entities[ks[i]]]

\* Object.assign(target, source): a shallow merge, source's fields winning.
ObjectAssign(target, source) ==
    [k \in DOMAIN target \cup DOMAIN source |->
        IF k \in DOMAIN source THEN source[k] ELSE target[k]]

\* entities[key] = value on a lookup table.
ObjectSet(entities, key, value) ==
    [k \in DOMAIN entities \cup {key} |->
        IF k = key THEN value ELSE entities[k]]

\* Entity adapter, sorted variant: state.ids is recomputed from the values
\* of state.entities, sorted with the adapter's sortComparer.
ResortEntities(state, adapter) ==
    LET sorted == StableSort(ObjectValues(state.entities), adapter)
    IN  [state EXCEPT !.ids = [i \in 1..Len(sorted) |-> sorted[i].id]]

RECURSIVE SetAll(_, _)
SetAll(entities, models) ==
    IF models = << >> THEN entities
    ELSE SetAll(ObjectSet(entities, Head(models).id, Head(models)),
                Tail(models))

\* adapter.addMany: the entities whose id is not stored yet are stored, then
\* the ids are sorted again; stored ids are left alone.
AddMany(state, newEntities, adapter) ==
    LET models == SelectSeq(newEntities,
                      LAMBDA m : m.id \notin DOMAIN state.entities)
    IN  IF models = << >> THEN state
        ELSE ResortEntities(
                 [state EXCEPT !.entities = SetAll(state.entities, models)],
                 adapter)

RECURSIVE AssignAll(_, _)
AssignAll(entities, updates) ==
    IF updates = << >> THEN entities
    ELSE LET u == Head(updates)
         IN  AssignAll(
                 IF u.id \in DOMAIN entities
                 THEN [entities EXCEPT ![u.id] = ObjectAssign(@, u)]
                 ELSE entities,
                 Tail(updates))

\* adapter.updateMany with each update's changes being a whole entity.
UpdateMany(state, updates, adapter) ==
    IF \E i \in 1..Len(updates) : updates[i].id \in DOMAIN state.entities
    THEN ResortEntities(
             [state EXCEPT !.entities = AssignAll(state.entities, updates)],
             adapter)
    ELSE state

\* adapter.upsertMany: the payload is split by whether the id is stored;
\* stored entities are merged with the new fields, the others are added.
UpsertMany(state, newEntities, adapter) ==
    LET updated == SelectSeq(newEntities,
                       LAMBDA m : m.id \in DOMAIN state.entities)
        added == SelectSeq(newEntities,
                     LAMBDA m : m.id \notin DOMAIN state.entities)
    IN  AddMany(UpdateMany(state, updated, adapter), added, adapter)

\* adapter.addOne
AddOne(state, entity, adapter) == AddMany(state, <<entity>>, adapter)

\* adapter.getSelectors(): selectIds, selectAll, selectById
SelectIds(state) == state.ids
SelectAll(state) == [i \in 1..Len(state.ids) |-> state.entities[state.ids[i]]]

(***************************************************************************)
(* The normalized posts slice.                                             *)
(***************************************************************************)

InitialReactions == [r \in ReactionNames |-> 0]

\* A post as the fake API returns it. The server keeps the text a post was
\* created with; Titles and Contents are also what postUpdated can write.
ServerPosts ==
    [id : PostIds, date : Dates, title : {"t1"}, content : {"c1"},
     user : Users, reactions : {InitialReactions}]

\* Payloads of fetchPosts.fulfilled: the rows of the server's posts table,
\* so no two with the same id.
PostPayloads ==
    {p \in UNION {[1..n -> ServerPosts] : n \in 0..MaxPayload} :
        \A i, j \in 1..Len(p) : p[i].id = p[j].id => i = j}

\* postsAdapter.getInitialState({ status: 'idle', error: null })
PostsInitialState ==
    [ids |-> << >>, entities |-> << >>, status |-> "idle", error |-> Null]

PostUpdatedReducer(state, postId, newTitle, newContent) ==
    IF postId \in DOMAIN state.entities
    THEN [state EXCEPT !.entities[postId].title = newTitle,
                       !.entities[postId].content = newContent]
    ELSE state

ReactionAddedReducer(state, postId, reaction) ==
    IF postId \in DOMAIN state.entities
    THEN [state EXCEPT !.entities[postId].reactions[reaction] = @ + 1]
    ELSE state

FetchPostsPendingReducer(state) == [state EXCEPT !.status = "loading"]

\* Mutant: addMany in place of upsertMany (stored posts are not refreshed).
FetchPostsFulfilledAddsOnly(state, payload) ==
    AddMany([state EXCEPT !.status = "succeeded"], payload,
            "postsAdapter")

FetchPostsFulfilledReducer(state, payload) ==
    UpsertMany([state EXCEPT !.status = "succeeded"], payload,
               "postsAdapter")

\* Mutant: the rejection's message is not stored.
FetchPostsRejectedDropsMessage(state, message) ==
    [state EXCEPT !.status = "failed"]

FetchPostsRejectedReducer(state, message) ==
    [state EXCEPT !.status = "failed", !.error = message]

\* Mutant: the new post is pushed and stored without looking it up first.
AddNewPostFulfilledPushes(state, payload) ==
    [state EXCEPT !.ids = Append(@, payload.id),
                  !.entities = ObjectSet(@, payload.id, payload)]

\* Mutant: upsertOne in place of addOne (a stored post is overwritten).
AddNewPostFulfilledUpserts(state, payload) ==
    UpsertMany(state, <<payload>>, "postsAdapter")

AddNewPostFulfilledReducer(state, payload) ==
    AddOne(state, payload, "postsAdapter")

\* No case reducer is registered for addNewPost.pending and
\* addNewPost.rejected: the slice returns the state it was given.
AddNewPostPendingReducer(state) == state
AddNewPostRejectedReducer(state) == state

\* Mutant: the posts are taken from Object.values(state.entities), not
\* from selectAllPosts.
SelectPostsByUserFromEntities(state, selectedUser) ==
    SelectSeq(ObjectValues(state.entities),
              LAMBDA post : post.user = selectedUser)

\* selectPostsByUser(userId)(state): a selector created for userId, whose
\* output selector filters the result of selectAllPosts. The selector is
\* created by the call, so its memoization cache is empty when it runs.
SelectPostsByUser(state, selectedUser) ==
    SelectSeq(SelectAll(state), LAMBDA post : post.user = selectedUser)

\* UserPage: useSelector(state => selectAllPosts(state).filter(
\*     post => post.user === userId))
UserPagePostsForUser(state, selectedUser) ==
    LET allPosts == SelectAll(state)
    IN  SelectSeq(allPosts, LAMBDA post : post.user = selectedUser)

PostUpdated(postId, newTitle, newContent) ==
    /\ posts' = PostUpdatedReducer(posts, postId, newTitle, newContent)
    /\ UNCHANGED <<postsVersionVars, notificationsVars, formVars>>

ReactionAdded(postId, reaction) ==
    /\ postId \in DOMAIN posts.entities =>
           posts.entities[postId].reactions[reaction] < MaxReactionCount
    /\ posts' = ReactionAddedReducer(posts, postId, reaction)
    /\ UNCHANGED <<postsVersionVars, notificationsVars, formVars>>

FetchPostsPending ==
    /\ posts' = FetchPostsPendingReducer(posts)
    /\ UNCHANGED <<postsVersionVars, notificationsVars, formVars>>

FetchPostsFulfilled(payload) ==
    /\ posts' = FetchPostsFulfilledReducer(posts, payload)
    /\ UNCHANGED <<postsVersionVars, notificationsVars, formVars>>

FetchPostsRejected(message) ==
    /\ posts' = FetchPostsRejectedReducer(posts, message)
    /\ UNCHANGED <<postsVersionVars, notificationsVars, formVars>>

AddNewPostPending ==
    /\ posts' = AddNewPostPendingReducer(posts)
    /\ UNCHANGED <<postsVersionVars, notificationsVars, formVars>>

AddNewPostFulfilled(payload) ==
    /\ posts' = AddNewPostFulfilledReducer(posts, payload)
    /\ UNCHANGED <<postsVersionVars, notificationsVars, formVars>>

AddNewPostRejected ==
    /\ posts' = AddNewPostRejectedReducer(posts)
    /\ UNCHANGED <<postsVersionVars, notificationsVars, formVars>>

(***************************************************************************)
(* The array versions of the posts slice. state.posts is an object holding *)
(* the array of posts (features/posts/postsSlice.js, lines 174-246) or the *)
(* array itself (features/post/postsSlice.js, lines 18-69), whose posts    *)
(* are [id, title, content] only.                                          *)
(***************************************************************************)

\* Array.prototype.find((post) => post.id === id): the index of the first
\* post with the id, 0 when find returns undefined.
Find(list, id) ==
    IF \E i \in 1..Len(list) : list[i].id = id
    THEN CHOOSE i \in 1..Len(list) :
             /\ list[i].id = id
             /\ \A j \in 1..(i - 1) : list[j].id # id
    ELSE 0

PostsListInitialState ==
    << [id |-> 1, title |-> "First Post!", content |-> "Hello!"],
       [id |-> 2, title |-> "Second Post", content |-> "More text"] >>

\* prepare(title, content); nanoId is what nanoid() returned.
PostsListPostAddedPrepare(nanoId, newTitle, newContent) ==
    [id |-> nanoId, title |-> newTitle, content |-> newContent]

PostsListPostAddedReducer(state, payload) == Append(state, payload)

\* Mutant: the title and content are assigned to every post.
PostsListPostUpdatedEveryPost(state, id, newTitle, newContent) ==
    [i \in 1..Len(state) |->
        [state[i] EXCEPT !.title = newTitle, !.content = newContent]]

PostsListPostUpdatedReducer(state, id, newTitle, newContent) ==
    LET existingPost == Find(state, id)
    IN  IF existingPost # 0
        THEN [state EXCEPT ![existingPost].title = newTitle,
                           ![existingPost].content = newContent]
        ELSE state

PostsArrayInitialState == [posts |-> << >>, status |-> "idle", error |-> Null]

\* prepare(title, content, userId); nanoId is what nanoid() returned and
\* now what new Date().toISOString() returned.
PostsArrayPostAddedPrepare(nanoId, now, newTitle, newContent, user) ==
    [id |-> nanoId, date |-> now, title |-> newTitle, content |-> newContent,
     reactions |-> InitialReactions, user |-> user]

PostsArrayPostAddedReducer(state, payload) ==
    [state EXCEPT !.posts = Append(@, payload)]

PostsArrayPostUpdatedReducer(state, id, newTitle, newContent) ==
    LET existingPost == Find(state.posts, id)
    IN  IF existingPost # 0
        THEN [state EXCEPT !.posts[existingPost].title = newTitle,
                           !.posts[existingPost].content = newContent]
        ELSE state

PostsArrayReactionAddedReducer(state, postId, reaction) ==
    LET existingPost == Find(state.posts, postId)
    IN  IF existingPost # 0
        THEN [state EXCEPT !.posts[existingPost].reactions[reaction] = @ + 1]
        ELSE state

\* The ids a postUpdated or reactionAdded payload can carry.
PayloadPostIds == PostIds \cup {1, 2} \cup NanoIds

\* nanoid() returns an id no stored post has.
FreshNanoIds(list) == NanoIds \ {list[i].id : i \in 1..Len(list)}

PostsListPostAdded(newTitle, newContent) ==
    /\ postsVersion = "list"
    /\ \E nanoId \in FreshNanoIds(postsList) :
           postsList' = PostsListPostAddedReducer(postsList,
               PostsListPostAddedPrepare(nanoId, newTitle, newContent))
    /\ UNCHANGED <<posts, postsVersion, postsArray, notificationsVars,
                   formVars>>

PostsListPostUpdated(id, newTitle, newContent) ==
    /\ postsVersion = "list"
    /\ postsList' = PostsListPostUpdatedReducer(postsList, id, newTitle,
                                                newContent)
    /\ UNCHANGED <<posts, postsVersion, postsArray, notificationsVars,
                   formVars>>

PostsArrayPostAdded(newTitle, newContent, user) ==
    /\ postsVersion = "array"
    /\ \E nanoId \in FreshNanoIds(postsArray.posts), now \in Dates :
           postsArray' = PostsArrayPostAddedReducer(postsArray,
               PostsArrayPostAddedPrepare(nanoId, now, newTitle, newContent,
                                          user))
    /\ UNCHANGED <<posts, postsVersion, postsList, notificationsVars,
                   formVars>>

PostsArrayPostUpdated(id, newTitle, newContent) ==
    /\ postsVersion = "array"
    /\ postsArray' = PostsArrayPostUpdatedReducer(postsArray, id, newTitle,
                                                  newContent)
    /\ UNCHANGED <<posts, postsVersion, postsList, notificationsVars,
                   formVars>>

PostsArrayReactionAdded(postId, reaction) ==
    /\ postsVersion = "array"
    /\ LET existingPost == Find(postsArray.posts, postId)
       IN  existingPost # 0 =>
               postsArray.posts[existingPost].reactions[reaction]
                   < MaxReactionCount
    /\ postsArray' = PostsArrayReactionAddedReducer(postsArray, postId,
                                                    reaction)
    /\ UNCHANGED <<posts, postsVersion, postsList, notificationsVars,
                   formVars>>

\* Initial values of the parts a specification does not run.
PostsIdle ==
    /\ posts = PostsInitialState
    /\ postsVersion = "normalized"
    /\ postsArray = PostsArrayInitialState
    /\ postsList = PostsListInitialState
NotificationsIdle ==
    /\ sliceVersion = "array"
    /\ notifications = << >>
    /\ notificationsState = [ids |-> << >>, entities |-> << >>]
    /\ serverDb = << >>
    /\ requests = << >>
FormIdle ==
    /\ title = ""
    /\ content = ""
    /\ userId = ""
    /\ addRequestStatus = "idle"
    /\ addRequests = << >>

Init == PostsIdle /\ NotificationsIdle /\ FormIdle

Next ==
    \/ \E id \in PostIds, t \in Titles, c \in Contents : PostUpdated(id, t, c)
    \/ \E id \in PostIds, r \in ReactionNames : ReactionAdded(id, r)
    \/ FetchPostsPending
    \/ \E payload \in PostPayloads : FetchPostsFulfilled(payload)
    \/ \E m \in ErrorMessages : FetchPostsRejected(m)
    \/ AddNewPostPending
    \/ \E payload \in ServerPosts : AddNewPostFulfilled(payload)
    \/ AddNewPostRejected

Spec == Init /\ [][Next]_vars

\* The store with one of the three versions of the posts slice.
PostsVersionsInit ==
    /\ postsVersion \in {"normalized", "array", "list"}
    /\ posts = PostsInitialState
    /\ postsArray = PostsArrayInitialState
    /\ postsList = PostsListInitialState
    /\ NotificationsIdle
    /\ FormIdle

PostsVersionsNext ==
    \/ postsVersion = "normalized" /\ Next
    \/ \E t \in Titles, c \in Contents : PostsListPostAdded(t, c)
    \/ \E id \in PayloadPostIds, t \in Titles, c \in Contents :
           PostsListPostUpdated(id, t, c)
    \/ \E t \in Titles, c \in Contents, u \in Users :
           PostsArrayPostAdded(t, c, u)
    \/ \E id \in PayloadPostIds, t \in Titles, c \in Contents :
           PostsArrayPostUpdated(id, t, c)
    \/ \E id \in PayloadPostIds, r \in ReactionNames :
           PostsArrayReactionAdded(id, r)

SpecPostsVersions == PostsVersionsInit /\ [][PostsVersionsNext]_vars

(***************************************************************************)
(* The notifications slice, array version and entity-adapter version.      *)
(*                                                                         *)
(* A notification is [id, date]; the message and user the API also sends   *)
(* are never read by the slice and are left out. The adapter version adds  *)
(* the fields read and isNew to the stored records; a field that was never *)
(* assigned is absent from the record (undefined in JavaScript).           *)
(***************************************************************************)

\* !!x of a field that may be absent.
Truthy(object, field) == field \in DOMAIN object /\ object[field] = TRUE

\* The notification the fake API holds under an id.
ServerNotification(id) == [id |-> id, date |-> serverDb[id]]

\* What client.get('/fakeApi/notifications?since=T') can resolve to: some
\* of the server's notifications newer than T, in any order, each once;
\* with T empty, some of all of them.
ServerResponses(since) ==
    LET newer == {id \in DOMAIN serverDb :
                     since = << >> \/ serverDb[id] > since[1]}
    IN  {[i \in 1..Len(p) |-> ServerNotification(p[i])] :
            p \in {q \in UNION {[1..n -> newer] : n \in 0..MaxPayload} :
                      \A i, j \in 1..Len(q) : q[i] = q[j] => i = j}}

\* Array version, fetchNotifications.fulfilled: push the payload, then sort.
NotificationsArrayFulfilledReducer(state, payload) ==
    StableSort(state \o payload, "notificationsArray")

\* Object.values(state.entities).forEach(n => { n.isNew = !n.read })
MarkNew(entities) ==
    [id \in DOMAIN entities |->
        ObjectAssign(entities[id],
                     [isNew |-> ~Truthy(entities[id], "read")])]

\* Mutant: isNew is refreshed before the payload is upserted.
NotificationsFulfilledMarksFirst(state, payload) ==
    UpsertMany([state EXCEPT !.entities = MarkNew(@)], payload,
               "notificationsAdapter")

\* Adapter version, fetchNotifications.fulfilled.
NotificationsFulfilledReducer(state, payload) ==
    LET upserted == UpsertMany(state, payload, "notificationsAdapter")
    IN  [upserted EXCEPT !.entities = MarkNew(@)]

\* Adapter version, allNotificationsRead.
AllNotificationsReadReducer(state) ==
    [state EXCEPT !.entities =
        [id \in DOMAIN @ |-> ObjectAssign(@[id], [read |-> TRUE])]]

\* notificationsAdapter.getInitialState()
NotificationsInitialState == [ids |-> << >>, entities |-> << >>]

\* selectAllNotifications of the version that is built.
SelectAllNotifications ==
    IF sliceVersion = "array" THEN notifications
    ELSE SelectAll(notificationsState)

\* Mutant: the thunk reads the last element of the list.
LatestNotificationFromEnd(allNotifications) ==
    IF allNotifications = << >> THEN << >>
    ELSE <<allNotifications[Len(allNotifications)]>>

\* const [latestNotification] = allNotifications: the first element, or
\* undefined (the empty tuple here) for an empty list.
LatestNotification(allNotifications) ==
    IF allNotifications = << >> THEN << >>
    ELSE <<allNotifications[1]>>

\* latestNotification ? latestNotification.date : '', as it is spliced into
\* the URL after "since=": the empty string is the empty tuple.
LatestTimestamp(allNotifications) ==
    LET latest == LatestNotification(allNotifications)
    IN  IF latest = << >> THEN << >> ELSE <<latest[1].date>>

RemoveAt(s, i) == SubSeq(s, 1, i - 1) \o SubSeq(s, i + 1, Len(s))

\* dispatch(fetchNotifications()): the payload creator reads the store and
\* sends the request; fetchNotifications.pending has no case reducer.
FetchNotificationsStart ==
    /\ Len(requests) < MaxInFlight
    /\ requests' = Append(requests,
                       [since |-> LatestTimestamp(SelectAllNotifications)])
    /\ UNCHANGED <<sliceVersion, notifications, notificationsState, serverDb,
                   postsVars, formVars>>

\* The request of thunk i resolves with a payload and
\* fetchNotifications.fulfilled is reduced.
FetchNotificationsFulfilled(i, payload) ==
    /\ requests' = RemoveAt(requests, i)
    /\ IF sliceVersion = "array"
       THEN /\ notifications' =
                   NotificationsArrayFulfilledReducer(notifications, payload)
            /\ UNCHANGED notificationsState
       ELSE /\ notificationsState' =
                   NotificationsFulfilledReducer(notificationsState, payload)
            /\ UNCHANGED notifications
    /\ UNCHANGED <<sliceVersion, serverDb, postsVars, formVars>>

\* The request of thunk i fails: fetchNotifications.rejected has no case
\* reducer.
FetchNotificationsRejected(i) ==
    /\ requests' = RemoveAt(requests, i)
    /\ UNCHANGED <<sliceVersion, notifications, notificationsState, serverDb,
                   postsVars, formVars>>

AllNotificationsRead ==
    /\ sliceVersion = "adapter"
    /\ notificationsState' = AllNotificationsReadReducer(notificationsState)
    /\ UNCHANGED <<sliceVersion, notifications, serverDb, requests,
                   postsVars, formVars>>

NotificationsInit ==
    /\ sliceVersion \in {"array", "adapter"}
    /\ notifications = << >>
    /\ notificationsState = NotificationsInitialState
    /\ serverDb \in [NotificationIds -> Dates]
    /\ requests = << >>
    /\ PostsIdle
    /\ FormIdle

NotificationsNext ==
    \/ FetchNotificationsStart
    \/ \E i \in 1..Len(requests) :
          \E payload \in ServerResponses(requests[i].since) :
              FetchNotificationsFulfilled(i, payload)
    \/ \E i \in 1..Len(requests) : FetchNotificationsRejected(i)
    \/ AllNotificationsRead

SpecNotifications == NotificationsInit /\ [][NotificationsNext]_vars

(***************************************************************************)
(* AddPostForm: the component's useState values and the addNewPost thunks  *)
(* whose promise onSavePostClicked awaits. The reducers the thunk's        *)
(* actions reach are those of the posts slice above (AddNewPostPending,    *)
(* AddNewPostFulfilled, AddNewPostRejected); the form reads none of        *)
(* state.posts.                                                            *)
(***************************************************************************)

FormTitles == {""} \cup Titles
FormContents == {""} \cup Contents
FormUserIds == {""} \cup Users

\* Mutant: the request status is left out of canSave.
CanSaveIgnoringStatus == title # "" /\ content # "" /\ userId # ""

\* [title, content, userId].every(Boolean) && addRequestStatus === 'idle'
CanSave ==
    /\ title # "" /\ content # "" /\ userId # ""
    /\ addRequestStatus = "idle"

OnTitleChanged(value) ==
    /\ title' = value
    /\ UNCHANGED <<content, userId, addRequestStatus, addRequests,
                   postsVars, notificationsVars>>

OnContentChanged(value) ==
    /\ content' = value
    /\ UNCHANGED <<title, userId, addRequestStatus, addRequests,
                   postsVars, notificationsVars>>

OnAuthorChanged(value) ==
    /\ userId' = value
    /\ UNCHANGED <<title, content, addRequestStatus, addRequests,
                   postsVars, notificationsVars>>

\* onSavePostClicked up to its await: when canSave holds the status becomes
\* 'pending' and addNewPost({ title, content, user: userId }) is dispatched;
\* otherwise the handler does nothing.
OnSavePostClicked ==
    /\ Len(addRequests) < MaxAddRequests
    /\ IF CanSave
       THEN /\ addRequestStatus' = "pending"
            /\ addRequests' = Append(addRequests,
                   [title |-> title, content |-> content, user |-> userId])
       ELSE UNCHANGED <<addRequestStatus, addRequests>>
    /\ UNCHANGED <<title, content, userId, postsVars, notificationsVars>>

\* The awaited thunk i was fulfilled: unwrap() returns, the three fields are
\* cleared, and the finally block sets the status to 'idle'.
OnAddNewPostFulfilled(i) ==
    /\ addRequests' = RemoveAt(addRequests, i)
    /\ title' = ""
    /\ content' = ""
    /\ userId' = ""
    /\ addRequestStatus' = "idle"
    /\ UNCHANGED <<postsVars, notificationsVars>>

\* Mutant: the status is reset in the try block, not in a finally block.
OnAddNewPostRejectedNoFinally(i) ==
    /\ addRequests' = RemoveAt(addRequests, i)
    /\ UNCHANGED <<title, content, userId, addRequestStatus,
                   postsVars, notificationsVars>>

\* The awaited thunk i was rejected: unwrap() throws, the catch block logs,
\* and the finally block sets the status to 'idle'.
OnAddNewPostRejected(i) ==
    /\ addRequests' = RemoveAt(addRequests, i)
    /\ addRequestStatus' = "idle"
    /\ UNCHANGED <<title, content, userId, postsVars, notificationsVars>>

\* The promise of some awaited thunk settles.
AddNewPostSettles ==
    \E i \in 1..Len(addRequests) :
        OnAddNewPostFulfilled(i) \/ OnAddNewPostRejected(i)

FormInit == FormIdle /\ PostsIdle /\ NotificationsIdle

FormNext ==
    \/ \E value \in FormTitles : OnTitleChanged(value)
    \/ \E value \in FormContents : OnContentChanged(value)
    \/ \E value \in FormUserIds : OnAuthorChanged(value)
    \/ OnSavePostClicked
    \/ \E i \in 1..Len(addRequests) : OnAddNewPostFulfilled(i)
    \/ \E i \in 1..Len(addRequests) : OnAddNewPostRejected(i)

\* The request a thunk sends is answered or fails: its promise settles.
SpecForm == FormInit /\ [][FormNext]_vars /\ WF_vars(AddNewPostSettles)

(***************************************************************************)
(* Properties of the normalized posts slice.                               *)
(***************************************************************************)

NoDuplicates(s) == \A i, j \in 1..Len(s) : s[i] = s[j] => i = j
Range(s) == {s[i] : i \in 1..Len(s)}

\* C1: after any sequence of posts actions, state.posts.ids holds no id
\* twice, the ids are exactly the keys of state.posts.entities, and the
\* entity stored under an id carries that id.
C1_IdsMatchEntities ==
    /\ NoDuplicates(posts.ids)
    /\ Range(posts.ids) = DOMAIN posts.entities
    /\ \A id \in DOMAIN posts.entities : posts.entities[id].id = id

\* C1 witness: every id is stored, after a fetch, an edit and a reaction.
C1_Witness ==
    /\ Len(posts.ids) = MaxPostId
    /\ posts.status = "succeeded"
    /\ \E id \in DOMAIN posts.entities :
           /\ posts.entities[id].title = "t2"
           /\ posts.entities[id].reactions["thumbsUp"] > 0

\* C2: state.posts.ids is ordered by date, newest first: an id's post is
\* never older than the post of the id after it.
C2_IdsNewestFirst ==
    \A i \in 1..(Len(posts.ids) - 1) :
        /\ posts.ids[i] \in DOMAIN posts.entities
        /\ posts.ids[i + 1] \in DOMAIN posts.entities
        /\ posts.entities[posts.ids[i]].date >=
               posts.entities[posts.ids[i + 1]].date

\* C2 witness: two posts of different dates, the newer one listed first.
C2_Witness ==
    /\ Len(posts.ids) >= 2
    /\ posts.entities[posts.ids[1]].date >
           posts.entities[posts.ids[Len(posts.ids)]].date

PayloadIds(payload) == {payload[i].id : i \in 1..Len(payload)}

\* C9: in every reachable state and for every payload, fetchPosts.fulfilled
\* stores every post of the payload under its id with the payload's field
\* values, keeps every other stored post as it was, and sets status to
\* 'succeeded'.
C9_FetchPostsFulfilledUpserts ==
    \A payload \in PostPayloads :
        LET after == FetchPostsFulfilledReducer(posts, payload)
        IN  /\ after.status = "succeeded"
            /\ \A i \in 1..Len(payload) :
                   /\ payload[i].id \in DOMAIN after.entities
                   /\ \A f \in DOMAIN payload[i] :
                          after.entities[payload[i].id][f] = payload[i][f]
            /\ \A id \in DOMAIN posts.entities \ PayloadIds(payload) :
                   /\ id \in DOMAIN after.entities
                   /\ after.entities[id] = posts.entities[id]

\* C9 witness: after a fetch, a locally edited post next to another post.
C9_Witness ==
    /\ posts.status = "succeeded"
    /\ Cardinality(DOMAIN posts.entities) = 2
    /\ \E id \in DOMAIN posts.entities : posts.entities[id].content = "c2"

\* C10: in every reachable state, addNewPost.fulfilled stores the returned
\* post under its id when the id is new and leaves the whole state as it
\* was when the id is stored; status, error and the other posts are
\* unchanged. addNewPost.pending and addNewPost.rejected leave state.posts
\* unchanged.
C10_AddNewPostFrame ==
    /\ \A payload \in ServerPosts :
           LET after == AddNewPostFulfilledReducer(posts, payload)
           IN  IF payload.id \in DOMAIN posts.entities
               THEN after = posts
               ELSE /\ after.status = posts.status
                    /\ after.error = posts.error
                    /\ DOMAIN after.entities =
                           DOMAIN posts.entities \cup {payload.id}
                    /\ after.entities[payload.id] = payload
                    /\ \A id \in DOMAIN posts.entities :
                           after.entities[id] = posts.entities[id]
                    /\ Range(after.ids) = Range(posts.ids) \cup {payload.id}
    /\ AddNewPostPendingReducer(posts) = posts
    /\ AddNewPostRejectedReducer(posts) = posts

\* C10 witness: two posts stored while no fetch has run, so both were
\* inserted by addNewPost.fulfilled.
C10_Witness ==
    /\ posts.status = "idle"
    /\ Len(posts.ids) = 2

\* C11: status starts 'idle' with error null and is always 'idle',
\* 'loading', 'succeeded' or 'failed'; fetchPosts.pending sets 'loading',
\* fetchPosts.fulfilled 'succeeded', fetchPosts.rejected 'failed' with the
\* rejection's message as error; postUpdated, reactionAdded and the
\* addNewPost actions change neither status nor error.
C11_StatusLifecycle ==
    LET SameStatus(after) ==
            after.status = posts.status /\ after.error = posts.error
    IN  /\ PostsInitialState.status = "idle"
        /\ PostsInitialState.error = Null
        /\ posts.status \in {"idle", "loading", "succeeded", "failed"}
        /\ FetchPostsPendingReducer(posts).status = "loading"
        /\ \A payload \in PostPayloads :
               FetchPostsFulfilledReducer(posts, payload).status = "succeeded"
        /\ \A m \in ErrorMessages :
               /\ FetchPostsRejectedReducer(posts, m).status = "failed"
               /\ FetchPostsRejectedReducer(posts, m).error = m
        /\ \A id \in PostIds, t \in Titles, c \in Contents :
               SameStatus(PostUpdatedReducer(posts, id, t, c))
        /\ \A id \in PostIds, r \in ReactionNames :
               SameStatus(ReactionAddedReducer(posts, id, r))
        /\ \A payload \in ServerPosts :
               SameStatus(AddNewPostFulfilledReducer(posts, payload))
        /\ SameStatus(AddNewPostPendingReducer(posts))
        /\ SameStatus(AddNewPostRejectedReducer(posts))

\* C11 witness: a fetch was rejected after posts had been stored, and its
\* message is the error.
C11_Witness ==
    /\ posts.status = "failed"
    /\ posts.error = "Request failed"
    /\ Len(posts.ids) = MaxPostId

\* postUpdated changed at most the title and content of one record: a
\* record with the payload's id has the payload's title and content and
\* its other fields as before, every other record is as before.
OnlyTitleAndContentOf(before, after, id, newTitle, newContent) ==
    /\ DOMAIN after = DOMAIN before
    /\ \A k \in DOMAIN before :
           IF before[k].id = id
           THEN /\ DOMAIN after[k] = DOMAIN before[k]
                /\ after[k].title = newTitle
                /\ after[k].content = newContent
                /\ \A field \in DOMAIN before[k] \ {"title", "content"} :
                       after[k][field] = before[k][field]
           ELSE after[k] = before[k]

\* C12: postUpdated, in the bare-array, array and normalized posts slices,
\* changes only the title and content of the post whose id is the
\* payload's: that post's other fields, every other post, the order of the
\* posts and status/error are unchanged, and with an id no stored post has
\* the whole state is unchanged.
C12_PostUpdatedFrame ==
    \A id \in PayloadPostIds, t \in Titles, c \in Contents :
        LET afterList == PostsListPostUpdatedReducer(postsList, id, t, c)
            afterArray == PostsArrayPostUpdatedReducer(postsArray, id, t, c)
            after == PostUpdatedReducer(posts, id, t, c)
            Stored(list) == \E i \in 1..Len(list) : list[i].id = id
        IN  /\ OnlyTitleAndContentOf(postsList, afterList, id, t, c)
            /\ ~Stored(postsList) => afterList = postsList
            /\ OnlyTitleAndContentOf(postsArray.posts, afterArray.posts,
                                     id, t, c)
            /\ afterArray.status = postsArray.status
            /\ afterArray.error = postsArray.error
            /\ DOMAIN afterArray = DOMAIN postsArray
            /\ ~Stored(postsArray.posts) => afterArray = postsArray
            /\ OnlyTitleAndContentOf(posts.entities, after.entities,
                                     id, t, c)
            /\ after.ids = posts.ids
            /\ after.status = posts.status
            /\ after.error = posts.error
            /\ DOMAIN after = DOMAIN posts
            /\ ~Stored(SelectAll(posts)) => after = posts

\* C12 witness: in the bare-array version postUpdated has rewritten the
\* first of three posts and the second is the post the slice started with.
C12_Witness ==
    /\ postsVersion = "list"
    /\ Len(postsList) = 3
    /\ postsList[1] = [id |-> 1, title |-> "t2", content |-> "c2"]
    /\ postsList[2] = PostsListInitialState[2]

\* C13: for every user id, selectPostsByUser returns exactly the posts of
\* selectAllPosts whose user is that id, in the order of selectAllPosts
\* (newest first), and it is the list UserPage's inline filter computes.
C13_SelectPostsByUser ==
    \A u \in Users \cup {"nobody"} :
        LET all == SelectAll(posts)
            result == SelectPostsByUser(posts, u)
            matching == {i \in 1..Len(all) : all[i].user = u}
            Nth(k) == CHOOSE i \in matching :
                          Cardinality({j \in matching : j <= i}) = k
        IN  /\ Len(result) = Cardinality(matching)
            /\ \A k \in 1..Len(result) : result[k] = all[Nth(k)]
            /\ \A k \in 1..(Len(result) - 1) :
                   result[k].date >= result[k + 1].date
            /\ result = UserPagePostsForUser(posts, u)

\* C13 witness: one user wrote both stored posts, the newer one under the
\* greater id, and the other user wrote none.
C13_Witness ==
    /\ posts.ids = <<2, 1>>
    /\ posts.entities[2].date > posts.entities[1].date
    /\ Len(SelectPostsByUser(posts, "u1")) = 2
    /\ SelectPostsByUser(posts, "u2") = << >>

(***************************************************************************)
(* Properties of the notifications slice.                                  *)
(***************************************************************************)

\* The notifications the store holds, whatever their order.
StoredNotifications ==
    IF sliceVersion = "array" THEN Range(notifications)
    ELSE {notificationsState.entities[id] :
             id \in DOMAIN notificationsState.entities}

\* C3: in both versions of the slice, the list selectAllNotifications
\* returns is sorted newest first, and its first element carries the
\* greatest date of all stored notifications.
C3_NotificationsNewestFirst ==
    LET all == SelectAllNotifications
    IN  /\ \A i \in 1..(Len(all) - 1) : all[i].date >= all[i + 1].date
        /\ Range(all) = StoredNotifications
        /\ \A n \in StoredNotifications : all[1].date >= n.date

\* C3 witness: the adapter version lists every notification of the server,
\* among them two of different dates.
C3_Witness ==
    LET all == SelectAllNotifications
    IN  /\ sliceVersion = "adapter"
        /\ Len(all) = MaxNotificationId
        /\ all[1].date > all[Len(all)].date

\* C4: a thunk that starts requests since=T with T the date of the newest
\* stored notification, and with T empty when none is stored.
C4_SinceIsNewestDate ==
    [][FetchNotificationsStart =>
          LET since == requests'[Len(requests')].since
          IN  IF StoredNotifications = {}
              THEN since = << >>
              ELSE /\ Len(since) = 1
                   /\ \E n \in StoredNotifications : n.date = since[1]
                   /\ \A n \in StoredNotifications : n.date <= since[1]]_vars

\* C4 witness: a thunk is in flight that asked for the notifications since
\* a date, while notifications of two different dates are stored.
C4_Witness ==
    /\ \E i \in 1..Len(requests) :
          /\ requests[i].since # << >>
          /\ \A n \in StoredNotifications : n.date <= requests[i].since[1]
    /\ \E m, n \in StoredNotifications : m.date < n.date

\* C5 (the claim as stated): in the array version no two records of
\* state.notifications have the same id.
C5_NoDuplicateNotificationIds ==
    sliceVersion = "array" =>
        \A i, j \in 1..Len(notifications) :
            notifications[i].id = notifications[j].id => i = j

\* C6: in the adapter version, right after fetchNotifications.fulfilled
\* every stored notification has isNew = !read; one that was read before is
\* not new, one the fetch inserted is new.
C6_IsNewAfterFetch ==
    sliceVersion = "adapter" =>
        \A i \in 1..Len(requests) :
            \A payload \in ServerResponses(requests[i].since) :
                LET before == notificationsState.entities
                    after ==
                        NotificationsFulfilledReducer(notificationsState,
                                                      payload).entities
                IN  \A id \in DOMAIN after :
                        /\ "isNew" \in DOMAIN after[id]
                        /\ after[id].isNew = ~Truthy(after[id], "read")
                        /\ (id \in DOMAIN before /\ Truthy(before[id], "read"))
                               => after[id].isNew = FALSE
                        /\ id \notin DOMAIN before => after[id].isNew = TRUE

\* C6 witness: after a fetch, a read notification that is not new next to
\* a new one, with a further thunk in flight.
C6_Witness ==
    /\ sliceVersion = "adapter"
    /\ requests # << >>
    /\ \E m, n \in StoredNotifications :
          /\ Truthy(m, "read") /\ "isNew" \in DOMAIN m /\ ~m.isNew
          /\ ~Truthy(n, "read") /\ Truthy(n, "isNew")

(***************************************************************************)
(* Properties of AddPostForm.                                              *)
(***************************************************************************)

\* C7: a save that set addRequestStatus to 'pending' is followed by 'idle'
\* once its thunk settles, fulfilled or rejected; the fields are cleared
\* when it was fulfilled and keep their values when it was rejected.
C7_StatusReturnsToIdle ==
    /\ (addRequestStatus = "pending") ~> (addRequestStatus = "idle")
    /\ [][\A i \in 1..Len(addRequests) :
             /\ OnAddNewPostFulfilled(i) =>
                    /\ addRequestStatus' = "idle"
                    /\ title' = "" /\ content' = "" /\ userId' = ""
             /\ OnAddNewPostRejected(i) =>
                    /\ addRequestStatus' = "idle"
                    /\ title' = title /\ content' = content
                    /\ userId' = userId]_vars

\* C7 witness: a save is pending and the user has typed a new title since.
C7_Witness ==
    /\ addRequestStatus = "pending"
    /\ Len(addRequests) = 1
    /\ title # "" /\ title # addRequests[1].title
    /\ content # "" /\ userId # ""

\* C8: addNewPost is dispatched only with the three fields non-empty and
\* the status 'idle', and at most one addNewPost of the form is in flight.
C8_OneRequestInFlight ==
    /\ [](Len(addRequests) <= 1)
    /\ [][Len(addRequests') > Len(addRequests) =>
             /\ title # "" /\ content # "" /\ userId # ""
             /\ addRequestStatus = "idle"
             /\ addRequests'[Len(addRequests')] =
                    [title |-> title, content |-> content, user |-> userId]
          ]_vars

\* C8 witness: one request is in flight and the three fields are filled
\* again, so that only the status keeps Save Post from dispatching.
C8_Witness ==
    /\ Len(addRequests) = 1
    /\ addRequestStatus = "pending"
    /\ title = "t2" /\ content = "c2" /\ userId = "u2"

====
